---- MODULE Spec2Model ----
(***************************************************************************)
(* Model of src/utils.py of VNect: the image geometry helpers              *)
(* (img_scale, img_padding, img_scale_squareify, img_scale_padding), the   *)
(* heatmap read-out (extract_2d_joints_from_heatmap,                       *)
(* extract_3d_joints_from_heatmap) and gen_heatmap.                        *)
(*                                                                         *)
(* The library is stateless: the state machine is a caller that is idle,   *)
(* calls one function on inputs drawn from bounded sets, holds the value   *)
(* (or the exception) the call produced, and returns to idle.              *)
(*                                                                         *)
(* Conventions.                                                            *)
(*  - An array of pixels is a record [err, h, w, px]: err = "" for a       *)
(*    value, the exception's name otherwise; px maps <<row, col>> (both    *)
(*    0-based, as in numpy) to a pixel.  The channel axis (always 3, and   *)
(*    never indexed by the code) is carried by the pixel.                  *)
(*  - The helpers only move pixels, so a pixel is kept symbolic:           *)
(*    <<"src", r, c>> is the caller's pixel at (r, c), <<"pad", v, 0>> a   *)
(*    pixel filled with pad value v, <<"lanczos", r, c>> the pixel (r, c)  *)
(*    of a resampled image (its value is whatever Lanczos yields).         *)
(*  - A float scale factor is the exact fraction num/den.                  *)
(***************************************************************************)
EXTENDS Integers, Sequences, FiniteSets, TLC

\* ------------------------------------------------------------------ bounds
MaxSide == 4
MaxScaleNum == 5
ScaleDen == 4
MaxHm == 2
MaxChannels == 2
MaxCoord == 3
MaxMap == 3
MaxBox == 4
MaxFlat == 15
MaxTie == 2
MaxCanvas == 5

\* the heatmap scale factors tried, as <<num, den>>: 1/2, 1, 3/2, 2 (dyadic,
\* so the float arithmetic of the code on them is exact)
HmFactors == {<<1, 2>>, <<1, 1>>, <<3, 2>>, <<2, 1>>}

\* the sigmas tried, as <<num, den>>: 1/4, 1/2, 1, 3/2
Sigmas == {<<1, 4>>, <<1, 2>>, <<1, 1>>, <<3, 2>>}

\* ----------------------------------------------------------- arithmetic
Max(a, b) == IF a >= b THEN a ELSE b
Min(a, b) == IF a <= b THEN a ELSE b

\* cv2.resize: dsize = saturate_cast<int>(size * scale), i.e. cvRound, which
\* rounds to nearest with ties to even; n/d with n >= 0, d > 0.
cvRound(n, d) ==
    LET q == n \div d
        r == n % d
    IN  IF 2 * r < d THEN q
        ELSE IF 2 * r > d THEN q + 1
        ELSE IF q % 2 = 0 THEN q ELSE q + 1

\* math.ceil(w / 2) for an integer w >= 0
CeilHalf(w) == (w + 1) \div 2

\* Python/numpy normalisation of one bound of a slice over an axis of length n
SliceIndex(i, n) == IF i < 0 THEN Max(i + n, 0) ELSE Min(i, n)

\* ------------------------------------------------------------- arrays
Raise(e) == [err |-> e, h |-> 0, w |-> 0, px |-> <<>>]
Cells(hh, ww) == (0 .. hh - 1) \X (0 .. ww - 1)
Array(hh, ww, pixels) == [err |-> "", h |-> hh, w |-> ww, px |-> pixels]
SrcPixel(r, c) == <<"src", r, c>>
PadPixel(v) == <<"pad", v, 0>>
LanczosPixel(r, c) == <<"lanczos", r, c>>
SrcImage(hh, ww) == Array(hh, ww, [p \in Cells(hh, ww) |-> SrcPixel(p[1], p[2])])

\* ------------------------------------------------------------ img_scale
\* cv2.resize(img, (0, 0), fx=scale, fy=scale): the output size is cvRound of
\* each side times the scale; an empty output size is rejected; an output of
\* the input's size is a plain copy; otherwise every pixel is resampled.
img_scale(img, num, den) ==
    LET dh == cvRound(img.h * num, den)
        dw == cvRound(img.w * num, den)
    IN  IF dh = 0 \/ dw = 0 THEN Raise("cv2.error")
        ELSE IF dh = img.h /\ dw = img.w THEN img
        ELSE Array(dh, dw, [p \in Cells(dh, dw) |-> LanczosPixel(p[1], p[2])])

\* ---------------------------------------------------------- img_padding
\* the two bounds of the column slice of line 30, as written
PadStart(w, box_size) == box_size \div 2 - CeilHalf(w)
PadStop(w, box_size, offset) == box_size \div 2 + CeilHalf(w) - offset

img_padding_no_offset(img, box_size, offset, pad_num) ==
    IF img.h # box_size \/ ~(img.w < box_size) THEN Raise("AssertionError")
    ELSE LET lo == SliceIndex(PadStart(img.w, box_size), box_size)
             hi == SliceIndex(PadStop(img.w, box_size, 0), box_size)
             len == Max(hi - lo, 0)
             Put(r, c) == IF lo <= c /\ c < lo + len
                          THEN img.px[<<r, IF img.w = 1 THEN 0 ELSE c - lo>>]
                          ELSE PadPixel(pad_num)
         IN  IF len # img.w /\ img.w # 1 THEN Raise("ValueError")
             ELSE Array(box_size, box_size,
                        [p \in Cells(box_size, box_size) |-> Put(p[1], p[2])])

\* The slice assignment broadcasts: the image must have the slice's width, or
\* width 1 (its one column is then repeated), else numpy raises ValueError.
img_padding(img, box_size, offset, pad_num) ==
    IF img.h # box_size \/ ~(img.w < box_size) THEN Raise("AssertionError")
    ELSE LET lo == SliceIndex(PadStart(img.w, box_size), box_size)
             hi == SliceIndex(PadStop(img.w, box_size, offset), box_size)
             len == Max(hi - lo, 0)
             Put(r, c) == IF lo <= c /\ c < lo + len
                          THEN img.px[<<r, IF img.w = 1 THEN 0 ELSE c - lo>>]
                          ELSE PadPixel(pad_num)
         IN  IF len # img.w /\ img.w # 1 THEN Raise("ValueError")
             ELSE Array(box_size, box_size,
                        [p \in Cells(box_size, box_size) |-> Put(p[1], p[2])])

\* --------------------------------------------------- img_scale_squareify
\* the centre crop of line 49
Crop(img, box_size) ==
    LET lo == SliceIndex(img.w \div 2 - box_size \div 2, img.w)
        hi == SliceIndex(img.w \div 2 + box_size \div 2, img.w)
        Take(r, c) == img.px[<<r, c + lo>>]
    IN  Array(img.h, Max(hi - lo, 0),
              [p \in Cells(img.h, Max(hi - lo, 0)) |-> Take(p[1], p[2])])

img_scale_squareify(img, box_size) ==
    LET img_scaled == img_scale(img, box_size, img.h)
        img_cropped == IF img_scaled.w < box_size
                       THEN img_padding(img_scaled, box_size, img_scaled.w % 2, 0)
                       ELSE Crop(img_scaled, box_size)
    IN  IF img_scaled.err # "" THEN img_scaled
        ELSE IF img_cropped.err # "" THEN img_cropped
        ELSE IF img_cropped.h # box_size \/ img_cropped.w # box_size
             THEN Raise("AssertionError")
        ELSE img_cropped

\* ----------------------------------------------------- img_scale_padding
\* np.pad(img_scaled, ((before0, after0), (before1, after1), (0, 0))): a
\* negative width raises ValueError; axis 0 grows by before0 + after0 rows,
\* axis 1 by before1 + after1 columns, all filled with pad_num.
np_pad(img, before0, after0, before1, after1, pad_num) ==
    LET Put(r, c) == IF /\ before0 <= r /\ r < before0 + img.h
                        /\ before1 <= c /\ c < before1 + img.w
                     THEN img.px[<<r - before0, c - before1>>]
                     ELSE PadPixel(pad_num)
    IN  IF before0 < 0 \/ after0 < 0 \/ before1 < 0 \/ after1 < 0
        THEN Raise("ValueError")
        ELSE Array(before0 + img.h + after0, before1 + img.w + after1,
                   [p \in Cells(before0 + img.h + after0, before1 + img.w + after1)
                        |-> Put(p[1], p[2])])

img_scale_padding_no_offset(img, num, den, pad_num) ==
    LET box_size == img.h
        img_scaled == img_scale(img, num, den)
        pad_h == (box_size - img_scaled.h) \div 2
        pad_w == (box_size - img_scaled.w) \div 2
    IN  IF img.h # img.w THEN Raise("AssertionError")
        ELSE IF img_scaled.err # "" THEN img_scaled
        ELSE np_pad(img_scaled, pad_w, pad_w, pad_h, pad_h, pad_num)

\* Line 68 pads axis 0 (rows) with the widths computed from shape[1] and
\* axis 1 (columns) with those computed from shape[0], as written.
img_scale_padding(img, num, den, pad_num) ==
    LET box_size == img.h
        img_scaled == img_scale(img, num, den)
        pad_h == (box_size - img_scaled.h) \div 2
        pad_w == (box_size - img_scaled.w) \div 2
        pad_h_offset == (box_size - img_scaled.h) % 2
        pad_w_offset == (box_size - img_scaled.w) % 2
    IN  IF img.h # img.w THEN Raise("AssertionError")
        ELSE IF img_scaled.err # "" THEN img_scaled
        ELSE np_pad(img_scaled, pad_w, pad_w + pad_w_offset,
                    pad_h, pad_h + pad_h_offset, pad_num)

\* ------------------------------------------- extract_2d_joints_from_heatmap
\* A heatmap stack is [err, h, w, n, v]: n channels, v maps <<row, col, joint>>
\* to the channel's value there.
Stack(hh, ww, nn, values) == [err |-> "", h |-> hh, w |-> ww, n |-> nn, v |-> values]
RaiseStack(e) == [err |-> e, h |-> 0, w |-> 0, n |-> 0, v |-> <<>>]

\* img_scale of a stack.  The values Lanczos resampling yields are not
\* computed here: resampled is the stack cv2.resize returns when the size
\* changes (any stack of the output size).  A one-channel result comes back
\* from cv2 as a 2-D array, which n = 0 stands for (shape[2] does not exist).
hm_scale(heatmap, num, den, resampled) ==
    LET dh == cvRound(heatmap.h * num, den)
        dw == cvRound(heatmap.w * num, den)
        out == IF dh = heatmap.h /\ dw = heatmap.w THEN heatmap ELSE resampled
    IN  IF dh = 0 \/ dw = 0 THEN RaiseStack("cv2.error")
        ELSE IF out.n = 1 THEN [out EXCEPT !.n = 0]
        ELSE out

\* np.argmax(heatmap_scaled[:, :, joint_num]): the index, in the flattened
\* (row-major) plane, of the first occurrence of the maximum
np_argmax(hm, j) ==
    LET At(k) == hm.v[<<k \div hm.w, k % hm.w, j>>]
        Flat == 0 .. hm.h * hm.w - 1
    IN  CHOOSE k \in Flat :
            /\ \A m \in Flat : At(m) <= At(k)
            /\ \A m \in Flat : m < k => At(m) < At(k)

\* a value stored in a np.int16 cell
Int16(x) == ((x + 32768) % 65536) - 32768

\* np.unravel_index(k, (rows, cols)); k outside the shape raises ValueError,
\* which the pair <<-1, -1>> stands for
np_unravel_index(k, rows, cols) ==
    IF k >= rows * cols THEN <<-1, -1>> ELSE <<k \div cols, k % cols>>

\* line 85: the flat index of the maximum of the rescaled plane is unravelled
\* in the shape (box_size, box_size)
joint_coord(hm, j, box_size) ==
    np_unravel_index(np_argmax(hm, j), box_size, box_size)

extract_2d_joints_from_heatmap(heatmap, box_size, num, den, resampled) ==
    LET heatmap_scaled == hm_scale(heatmap, num, den, resampled)
        Joints == 0 .. heatmap_scaled.n - 1
    IN  IF heatmap.h # heatmap.w THEN [err |-> "AssertionError", joints_2d |-> <<>>]
        ELSE IF heatmap_scaled.err # ""
             THEN [err |-> heatmap_scaled.err, joints_2d |-> <<>>]
        ELSE IF heatmap_scaled.n = 0 THEN [err |-> "IndexError", joints_2d |-> <<>>]
        ELSE IF \E j \in Joints : joint_coord(heatmap_scaled, j, box_size) = <<-1, -1>>
             THEN [err |-> "ValueError", joints_2d |-> <<>>]
        ELSE [err |-> "",
              joints_2d |-> [j \in Joints |->
                  <<Int16(joint_coord(heatmap_scaled, j, box_size)[1]),
                    Int16(joint_coord(heatmap_scaled, j, box_size)[2])>>]]

\* ------------------------------------------- extract_3d_joints_from_heatmap
\* A float is <<"fin", n>> (the number n; the maps hold integers small enough
\* for 100 * n and the differences to be exact in float32) or NonFinite, which
\* stands for nan, inf and -inf: an operation on one of them yields one of them.
Fin(n) == <<"fin", n>>
NonFinite == <<"nonfinite", 0>>
FMul(a, k) == IF a = NonFinite THEN NonFinite ELSE Fin(a[2] * k)
FSub(a, b) == IF a = NonFinite \/ b = NonFinite THEN NonFinite ELSE Fin(a[2] - b[2])

scaler == 100
RootJoint == 14

\* A coordinate map is held by what determines it: [h, w, n, axis, seed, nf];
\* its entry at (r, c, j) is MapAt: a different number at every index of
\* every axis, and a non-finite float throughout channel nf.
MapAt(hm, r, c, j) ==
    IF j = hm.nf THEN NonFinite
    ELSE Fin(hm.seed + 3 * ((r * hm.w + c) * hm.n + j) + hm.axis)
InMap(hm, r, c, j) ==
    r \in 0 .. hm.h - 1 /\ c \in 0 .. hm.w - 1 /\ j \in 0 .. hm.n - 1

\* int(x) of the float x = n / d, d > 0: truncation towards zero
PyInt(n, d) == IF n >= 0 THEN n \div d ELSE -((-n) \div d)

\* max(int(coord / hm_factor), 1), hm_factor = num / den
MapIndex(coord, num, den) == Max(PyInt(coord * den, num), 1)

\* lines 108-111: the row of joints_3d written for joint j, before translation
JointRow(j, joints_2d, x_hm, y_hm, z_hm, num, den) ==
    LET r == MapIndex(joints_2d[j][1], num, den)
        c == MapIndex(joints_2d[j][2], num, den)
    IN  <<FMul(MapAt(x_hm, r, c, j), scaler),
          FMul(MapAt(y_hm, r, c, j), scaler),
          FMul(MapAt(z_hm, r, c, j), scaler)>>

RowSub(a, b) == <<FSub(a[1], b[1]), FSub(a[2], b[2]), FSub(a[3], b[3])>>

\* the subtraction done row by row on the array itself: once row 14 has been
\* overwritten, the rows after it are reduced by the new row 14
SubtractRootAliased(joints_3d) ==
    [j \in DOMAIN joints_3d |->
        IF j <= RootJoint THEN RowSub(joints_3d[j], joints_3d[RootJoint])
        ELSE RowSub(joints_3d[j], RowSub(joints_3d[RootJoint], joints_3d[RootJoint]))]

SubtractRootOffByOne(joints_3d) ==
    [j \in DOMAIN joints_3d |-> RowSub(joints_3d[j], joints_3d[RootJoint - 1])]

\* line 114, joints_3d -= joints_3d[14, :]: numpy (1.13 and later) defines an
\* operation whose output overlaps an input as if there were no overlap, so
\* every row is reduced by row 14 as it was before the statement
SubtractRoot(joints_3d) ==
    [j \in DOMAIN joints_3d |-> RowSub(joints_3d[j], joints_3d[RootJoint])]

extract_3d_joints_from_heatmap(joints_2d, x_hm, y_hm, z_hm, box_size, num, den) ==
    LET Joints == 0 .. x_hm.n - 1
        Readable(j) ==
            /\ j \in DOMAIN joints_2d
            /\ \A hm \in {x_hm, y_hm, z_hm} :
                InMap(hm, MapIndex(joints_2d[j][1], num, den),
                          MapIndex(joints_2d[j][2], num, den), j)
        joints_3d == [j \in Joints |-> JointRow(j, joints_2d, x_hm, y_hm, z_hm, num, den)]
    IN  IF \E j \in Joints : ~Readable(j) THEN [err |-> "IndexError", joints_3d |-> <<>>]
        ELSE IF RootJoint \notin Joints THEN [err |-> "IndexError", joints_3d |-> <<>>]
        ELSE [err |-> "", joints_3d |-> SubtractRoot(joints_3d)]

\* ------------------------------------------------------------ gen_heatmap
\* th = 4.6052 = ThNum / ThDen
ThNum == 46052
ThDen == 10000

\* A heatmap value is Zero (0.0) or Gauss(d) = exp(-d / (2 sigma^2)) for the
\* squared distance d of the call; Gauss(0) is 1.0.  Within the threshold
\* Gauss(d) >= exp(-th) > 0, and Gauss falls as d grows.
Zero == <<"zero", 0>>
Gauss(d) == <<"gauss", d>>
FLess(a, b) ==
    \/ a = Zero /\ b # Zero
    \/ a # Zero /\ b # Zero /\ a[2] > b[2]
np_clip(a, a_min, a_max) ==
    IF FLess(a, a_min) THEN a_min ELSE IF FLess(a_max, a) THEN a_max ELSE a

\* floor(delta * sigma) for delta = sqrt(2 * th), sigma = sn / sd: the k with
\* k^2 <= 2 th sigma^2 < (k + 1)^2  (delta * sigma is never an integer, since
\* 2 * th = 92104 / 10000 is not the square of a fraction)
FloorDeltaSigma(sn, sd) ==
    CHOOSE k \in 0 .. 4 * sn :
        /\ k * k * sd * sd * ThDen <= 2 * ThNum * sn * sn
        /\ 2 * ThNum * sn * sn < (k + 1) * (k + 1) * sd * sd * ThDen

\* int(max(0, c - delta * sigma)): 0 unless c - delta*sigma > 0, and then its floor
BoxLow(c, sn, sd) == Max(0, c - FloorDeltaSigma(sn, sd) - 1)
\* int(min(size, c + delta * sigma)): int() truncates towards zero
BoxHigh(c, size, sn, sd) ==
    LET fl == c + FloorDeltaSigma(sn, sd)
    IN  IF size <= fl THEN size ELSE IF fl < 0 THEN fl + 1 ELSE fl

\* exp > th for exp = d / 2.0 / sigma / sigma
BeyondThreshold(d, sn, sd) == d * sd * sd * ThDen > 2 * ThNum * sn * sn

gen_heatmap(img_height, img_width, center_x, center_y, sn, sd) ==
    LET x0 == BoxLow(center_x, sn, sd)
        y0 == BoxLow(center_y, sn, sd)
        x1 == BoxHigh(center_x, img_width, sn, sd)
        y1 == BoxHigh(center_y, img_height, sn, sd)
        Value(y, x) ==
            LET d == (x - center_x) * (x - center_x) + (y - center_y) * (y - center_y)
            IN  IF ~(y0 <= y /\ y < y1 /\ x0 <= x /\ x < x1) THEN Zero
                ELSE IF BeyondThreshold(d, sn, sd) THEN Zero
                ELSE np_clip(Zero, Gauss(d), Gauss(0))
    IN  [err |-> "", h |-> img_height, w |-> img_width,
         v |-> [p \in Cells(img_height, img_width) |-> Value(p[1], p[2])]]

\* ------------------------------------------------------------- the caller
VARIABLES pc, fn, args, ret
vars == <<pc, fn, args, ret>>

Init ==
    /\ pc = "idle"
    /\ fn = "none"
    /\ args = <<>>
    /\ ret = <<>>

Call(f, a, r) ==
    /\ pc' = "done"
    /\ fn' = f
    /\ args' = a
    /\ ret' = r

CallSquareify ==
    /\ pc = "idle"
    /\ \E hh \in 1 .. MaxSide, ww \in 1 .. MaxSide, b \in 1 .. MaxSide :
        Call("img_scale_squareify",
             [img |-> SrcImage(hh, ww), box_size |-> b],
             img_scale_squareify(SrcImage(hh, ww), b))

CallPadding ==
    /\ pc = "idle"
    /\ \E hh \in 1 .. MaxSide, ww \in 1 .. MaxSide, b \in 1 .. MaxSide,
       off \in {0, 1}, pad \in {0, 128} :
        Call("img_padding",
             [img |-> SrcImage(hh, ww), box_size |-> b, offset |-> off, pad_num |-> pad],
             img_padding(SrcImage(hh, ww), b, off, pad))

CallScalePadding ==
    /\ pc = "idle"
    /\ \E hh \in 1 .. MaxSide, ww \in 1 .. MaxSide, num \in 1 .. MaxScaleNum,
       pad \in {0, 128} :
        Call("img_scale_padding",
             [img |-> SrcImage(hh, ww), num |-> num, den |-> ScaleDen, pad_num |-> pad],
             img_scale_padding(SrcImage(hh, ww), num, ScaleDen, pad))

\* The stacks the caller passes: channel j is 0 everywhere except for the
\* value peak at flat position peak + j and at tie places further on.
PeakStack(hh, ww, nn, peak, tie, val) ==
    LET IsPeak(r, c, j) ==
            LET k == r * ww + c
                first == (peak + j) % (hh * ww)
            IN  k = first \/ k = (first + tie) % (hh * ww)
        Val(r, c, j) == IF IsPeak(r, c, j) THEN val ELSE 0
    IN  Stack(hh, ww, nn,
              [p \in (0 .. hh - 1) \X (0 .. ww - 1) \X (0 .. nn - 1)
                    |-> Val(p[1], p[2], p[3])])

CallExtract2d ==
    /\ pc = "idle"
    /\ \E side \in 1 .. MaxHm, extra \in {0, 1}, nn \in 1 .. MaxChannels,
       f \in HmFactors, b \in 1 .. MaxBox,
       peak \in 0 .. MaxFlat, tie \in 0 .. MaxTie, val \in {-1, 1} :
        LET ww == side + extra
            num == f[1]
            den == f[2]
            dh == cvRound(side * num, den)
            dw == cvRound(ww * num, den)
            heatmap == PeakStack(side, ww, nn, peak % (side * ww), tie, val)
            resampled == IF dh = 0 \/ dw = 0 THEN RaiseStack("cv2.error")
                         ELSE PeakStack(dh, dw, nn, peak % (dh * dw), tie, val)
        IN  /\ peak < Max(side * ww, dh * dw)
            /\ Call("extract_2d_joints_from_heatmap",
                    [heatmap |-> heatmap, box_size |-> b, num |-> num,
                     den |-> den,
                     heatmap_scaled |-> hm_scale(heatmap, num, den, resampled)],
                    extract_2d_joints_from_heatmap(heatmap, b, num, den, resampled))

\* the joint counts tried: one too few for a joint 14, and up to two more
JointCounts == {RootJoint, RootJoint + 1, RootJoint + 2, RootJoint + 3}
\* the 2-D joints the caller passes: joint j at (j mod 2, 1), but for the
\* root and for one probed joint, which are placed anywhere
Joints2d(nn, probe, prow, pcol, rrow, rcol) ==
    [j \in 0 .. nn - 1 |->
        IF j = RootJoint THEN <<rrow, rcol>>
        ELSE IF j = probe THEN <<prow, pcol>>
        ELSE <<j % 2, 1>>]
CoordMap(side, nn, ax, sd, nonfinite) ==
    [h |-> side, w |-> side, n |-> nn, axis |-> ax, seed |-> sd, nf |-> nonfinite]

CallExtract3d ==
    /\ pc = "idle"
    /\ \E nn \in JointCounts, probe \in {0, RootJoint + 1, RootJoint + 2},
       prow \in -1 .. MaxCoord, pcol \in -1 .. MaxCoord,
       rrow \in -1 .. MaxCoord, rcol \in {0, MaxCoord},
       side \in 2 .. MaxMap, f \in HmFactors, nonfinite \in {-1, RootJoint} :
        LET joints_2d == Joints2d(nn, probe, prow, pcol, rrow, rcol)
            x_hm == CoordMap(side, nn, 0, 1, nonfinite)
            y_hm == CoordMap(side, nn, 1, 1, nonfinite)
            z_hm == CoordMap(side, nn, 2, 1, nonfinite)
        IN  /\ probe < nn
            /\ Call("extract_3d_joints_from_heatmap",
                    [joints_2d |-> joints_2d, x_hm |-> x_hm, y_hm |-> y_hm,
                     z_hm |-> z_hm, box_size |-> 0, num |-> f[1], den |-> f[2]],
                    extract_3d_joints_from_heatmap(joints_2d, x_hm, y_hm, z_hm,
                                                   0, f[1], f[2]))

CallGenHeatmap ==
    /\ pc = "idle"
    /\ \E hh \in 1 .. MaxCanvas, ww \in 1 .. MaxCanvas,
          cx \in -1 .. MaxCanvas, cy \in -1 .. MaxCanvas, sg \in Sigmas :
        Call("gen_heatmap",
             [img_height |-> hh, img_width |-> ww, center_x |-> cx,
              center_y |-> cy, sn |-> sg[1], sd |-> sg[2]],
             gen_heatmap(hh, ww, cx, cy, sg[1], sg[2]))

Return ==
    /\ pc = "done"
    /\ pc' = "idle"
    /\ fn' = "none"
    /\ args' = <<>>
    /\ ret' = <<>>

Next ==
    \/ CallSquareify
    \/ CallPadding
    \/ CallScalePadding
    \/ CallExtract2d
    \/ CallExtract3d
    \/ CallGenHeatmap
    \/ Return

Spec == Init /\ [][Next]_vars

\* ================================================================ claims
IsImg(f) == pc = "done" /\ fn = f
Abs(x) == IF x < 0 THEN -x ELSE x
\* the columns of row 0 of an array that hold a pixel of the caller's image
SrcCols(a) == {c \in 0 .. a.w - 1 : a.px[<<0, c>>][1] = "src"}

\* C1: img_scale_squareify returns, for every image (h, w >= 1) and every
\* box_size >= 1, an image of shape exactly (box_size, box_size, 3); the
\* final assertion never fails, in either branch, for odd and even box_size.
C1_SquareifyShapeAlways ==
    IsImg("img_scale_squareify") =>
        /\ ret.err = ""
        /\ ret.h = args.box_size
        /\ ret.w = args.box_size

\* C2: for an image of height box_size and width 1 <= w < box_size,
\* img_scale_squareify is img_padding with offset w mod 2; the column slice
\* written has width exactly w and lies inside [0, box_size); the result has
\* shape (box_size, box_size, 3).
C2_PaddingBranchShape ==
    (IsImg("img_scale_squareify") /\ args.img.h = args.box_size
        /\ args.img.w < args.box_size) =>
        LET w == args.img.w
            b == args.box_size
            start == PadStart(w, b)
            stop == PadStop(w, b, w % 2)
        IN  /\ ret.err = ""
            /\ ret.h = b /\ ret.w = b
            /\ ret = img_padding(args.img, b, w % 2, 0)
            /\ 0 <= start /\ stop <= b /\ stop - start = w
            /\ SrcCols(ret) = start .. stop - 1

C2_Witness ==
    /\ IsImg("img_scale_squareify")
    /\ args.img.h = args.box_size
    /\ args.img.w = 3
    /\ args.box_size = 4
    /\ ret.err = ""
    /\ Cardinality(SrcCols(ret)) = 3

\* the cells of an array that hold a pixel of the scaled image
Kept(a) == {p \in DOMAIN a.px : a.px[p][1] # "pad"}

\* C3: for a square image of side n and a scale <= 1.0 whose scaled side s
\* satisfies 1 <= s <= n, img_scale_padding returns an image of the input's
\* shape (n, n, 3): leading pad + s + trailing pad = n on both axes.
C3_ScalePaddingShape ==
    (IsImg("img_scale_padding") /\ args.img.h = args.img.w
        /\ args.num <= args.den
        /\ cvRound(args.img.h * args.num, args.den) >= 1
        /\ cvRound(args.img.h * args.num, args.den) <= args.img.h) =>
        LET n == args.img.h
            s == cvRound(n * args.num, args.den)
        IN  /\ ret.err = ""
            /\ ret.h = n /\ ret.w = n
            /\ \E lead0 \in 0 .. n, lead1 \in 0 .. n :
                /\ Kept(ret) = (lead0 .. lead0 + s - 1) \X (lead1 .. lead1 + s - 1)
                /\ lead0 + s + (ret.h - lead0 - s) = n
                /\ lead1 + s + (ret.w - lead1 - s) = n
                /\ (ret.h - lead0 - s) - lead0 \in {0, 1}
                /\ (ret.w - lead1 - s) - lead1 \in {0, 1}

C3_Witness ==
    /\ IsImg("img_scale_padding")
    /\ args.img.h = 4 /\ args.img.w = 4
    /\ args.num = 3 /\ args.den = 4
    /\ ret.err = ""
    /\ ret.h = 4 /\ ret.w = 4
    /\ Cardinality(Kept(ret)) = 9

\* C7: img_scale_squareify is idempotent on images that are already
\* box_size x box_size: for every box_size >= 1 the call returns, and
\* applying it again to its result gives the same result.
C7_SquareifyIdempotent ==
    (IsImg("img_scale_squareify") /\ args.img.h = args.box_size
        /\ args.img.w = args.box_size) =>
        /\ ret.err = ""
        /\ img_scale_squareify(ret, args.box_size) = ret

\* C8: img_padding centres the image: for height = box_size, width
\* 1 <= w < box_size and offset = w mod 2, the result holds the image in w
\* contiguous columns and pad_num in every other column, and the numbers of
\* padding columns on the left and on the right differ by at most one.
C8_PaddingCentred ==
    (IsImg("img_padding") /\ args.img.h = args.box_size
        /\ args.img.w < args.box_size /\ args.offset = args.img.w % 2) =>
        LET w == args.img.w
            b == args.box_size
        IN  /\ ret.err = ""
            /\ \E left \in 0 .. b - w :
                /\ \A r \in 0 .. b - 1, c \in 0 .. b - 1 :
                    ret.px[<<r, c>>] =
                        IF left <= c /\ c < left + w
                        THEN args.img.px[<<r, c - left>>]
                        ELSE PadPixel(args.pad_num)
                /\ Abs(left - (b - left - w)) <= 1

\* C4: whenever extract_2d_joints_from_heatmap returns, row j of the result
\* is the (row, column) position, inside the rescaled plane of channel j, of
\* that channel's maximum, and the first such position in row-major order.
C4_JointIsArgmaxPosition ==
    (IsImg("extract_2d_joints_from_heatmap") /\ ret.err = "") =>
        LET hm == args.heatmap_scaled
        IN  \A j \in DOMAIN ret.joints_2d :
                LET row == ret.joints_2d[j][1]
                    col == ret.joints_2d[j][2]
                IN  /\ row \in 0 .. hm.h - 1
                    /\ col \in 0 .. hm.w - 1
                    /\ \A r \in 0 .. hm.h - 1, c \in 0 .. hm.w - 1 :
                        /\ hm.v[<<r, c, j>>] <= hm.v[<<row, col, j>>]
                        /\ (r < row \/ (r = row /\ c < col))
                            => hm.v[<<r, c, j>>] < hm.v[<<row, col, j>>]

\* C5 as stated: for any input (any joint count, any 2-D joints, any map
\* contents) extract_3d_joints_from_heatmap returns and row 14 of the result
\* is exactly (0, 0, 0).
C5_RootZeroAnyInput ==
    IsImg("extract_3d_joints_from_heatmap") =>
        /\ ret.err = ""
        /\ ret.joints_3d[RootJoint] = <<Fin(0), Fin(0), Fin(0)>>

\* the three floats read from the maps for joint j
Read3(j) ==
    LET r == MapIndex(args.joints_2d[j][1], args.num, args.den)
        c == MapIndex(args.joints_2d[j][2], args.num, args.den)
    IN  <<MapAt(args.x_hm, r, c, j), MapAt(args.y_hm, r, c, j), MapAt(args.z_hm, r, c, j)>>

\* C5 as amended: whenever the call returns and the three values read for
\* joint 14 are finite, row 14 of the result is exactly (0, 0, 0).
C5_RootZeroWhenReturnsFinite ==
    (IsImg("extract_3d_joints_from_heatmap") /\ ret.err = ""
        /\ \A i \in 1 .. 3 : Read3(RootJoint)[i] # NonFinite) =>
        ret.joints_3d[RootJoint] = <<Fin(0), Fin(0), Fin(0)>>

C5_Witness ==
    /\ IsImg("extract_3d_joints_from_heatmap")
    /\ ret.err = ""
    /\ args.x_hm.n = RootJoint + 2
    /\ \A i \in 1 .. 3 : Read3(RootJoint)[i] # NonFinite /\ Read3(RootJoint)[i][2] > 0
    /\ ret.joints_3d[RootJoint] = <<Fin(0), Fin(0), Fin(0)>>
    /\ ret.joints_3d[RootJoint + 1] # <<Fin(0), Fin(0), Fin(0)>>

\* the integer part of coord / (num / den), stated by what truncation means:
\* the k of the same sign as coord with |k| <= |coord| * den / num < |k| + 1
Truncated(coord, num, den) ==
    LET a == Abs(coord)
        k == CHOOSE m \in 0 .. a * den : m * num <= a * den /\ a * den < (m + 1) * num
    IN  IF coord < 0 THEN -k ELSE k

\* C9: for every joint j, joints above 14 included, the result row is
\* 100*M[r_j, c_j, j] - 100*M[r_14, c_14, 14] for M = x, y, z map, with
\* r_j = max(trunc(row_j / hm_factor), 1), c_j = max(trunc(col_j / hm_factor), 1):
\* truncation, clamped below at 1, and one root value for every joint.
C9_RowsRelativeToRoot ==
    (IsImg("extract_3d_joints_from_heatmap") /\ ret.err = "") =>
        \A j \in 0 .. args.x_hm.n - 1 :
            LET Idx(coord) == Max(Truncated(coord, args.num, args.den), 1)
                At(hm, k) == MapAt(hm, Idx(args.joints_2d[k][1]),
                                       Idx(args.joints_2d[k][2]), k)
                Rel(hm) == FSub(FMul(At(hm, j), 100), FMul(At(hm, RootJoint), 100))
            IN  ret.joints_3d[j] = <<Rel(args.x_hm), Rel(args.y_hm), Rel(args.z_hm)>>

\* a joint above the root whose row 3 at factor 2 truncates to 1 (rounding
\* would give 2) and whose column 0 is clamped up to 1
C9_Witness ==
    /\ IsImg("extract_3d_joints_from_heatmap")
    /\ ret.err = ""
    /\ args.x_hm.n = RootJoint + 2
    /\ args.num = 2 /\ args.den = 1
    /\ args.joints_2d[RootJoint + 1] = <<3, 0>>
    /\ args.joints_2d[RootJoint] = <<2, 3>>
    /\ args.x_hm.nf = -1
    /\ ret.joints_3d[RootJoint + 1][1] =
         FSub(FMul(MapAt(args.x_hm, 1, 1, RootJoint + 1), 100),
              FMul(MapAt(args.x_hm, 1, 1, RootJoint), 100))

\* squared distance of pixel (y, x) from the centre of the call
Dist2(y, x) ==
    (x - args.center_x) * (x - args.center_x) + (y - args.center_y) * (y - args.center_y)
CentreInside ==
    args.center_x \in 0 .. args.img_width - 1 /\ args.center_y \in 0 .. args.img_height - 1

\* C6: for every canvas, every sigma > 0 and every integer centre inside the
\* canvas, the heatmap is exactly 1.0 at the centre and exactly 0.0 at every
\* pixel with d / (2 sigma^2) > 4.6052.
C6_CentreOneFarZero ==
    (IsImg("gen_heatmap") /\ CentreInside) =>
        /\ ret.v[<<args.center_y, args.center_x>>] = Gauss(0)
        /\ \A p \in DOMAIN ret.v :
            BeyondThreshold(Dist2(p[1], p[2]), args.sn, args.sd) => ret.v[p] = Zero

\* C10: the heatmap is the Gaussian truncated at the threshold and nothing
\* less: every pixel of the canvas with d / (2 sigma^2) <= 4.6052 holds the
\* non-zero value exp(-d / (2 sigma^2)); so the non-zero pixels are symmetric
\* about the centre wherever the canvas holds both of a pair.
C10_GaussianWithinThreshold ==
    IsImg("gen_heatmap") =>
        /\ \A p \in DOMAIN ret.v :
            ~BeyondThreshold(Dist2(p[1], p[2]), args.sn, args.sd)
                => ret.v[p] = Gauss(Dist2(p[1], p[2]))
        /\ \A p \in DOMAIN ret.v, q \in DOMAIN ret.v :
            (p[1] + q[1] = 2 * args.center_y /\ p[2] + q[2] = 2 * args.center_x)
                => ((ret.v[p] = Zero) <=> (ret.v[q] = Zero))

====
